---- MODULE Spec2Model ----
(***************************************************************************)
(* Model of src/scrape.py: the WebScraper filter configuration, the three  *)
(* per-document readers (OldTMCScraper._scrape_tmc for markup,             *)
(* RecentTMCScraper._read_xlsx, RecentTMCScraper._read_pdf), their field   *)
(* getters and the PDF east/west disambiguation (_get_veh_vol).            *)
(*                                                                         *)
(* Documents are modelled by what the getters can observe of them:         *)
(*   markup      - for every selector the list of selected cells, a cell   *)
(*                 being the list of its digit runs;                       *)
(*   spreadsheet - the values of the cells the getters address;            *)
(*   pdf         - the page text as the list of segments that follow each  *)
(*                 "Maximum Hour" marker, a segment being its time window  *)
(*                 (if one follows the marker), its keyword-tagged numbers *)
(*                 and the numeric runs of the three vehicle scans.        *)
(***************************************************************************)
EXTENDS Integers, Sequences, FiniteSets, TLC

VARIABLES
    pc,              \* "new" before the constructor has run, "ready" after
    cls,             \* the class being instantiated: "Old" or "Recent"
    period_filters,  \* the constructor's argument
    filter_options,  \* WebScraper.filter_options
    collect_am,      \* WebScraper.collect_am
    collect_md,      \* WebScraper.collect_md
    collect_pm,      \* WebScraper.collect_pm
    rows,            \* the rows scrape_tmc_counts applies _scrape_tmc to
    tmc_data,        \* what _scrape_tmc returned for the rows done so far
    available,       \* per row done: available_am / _md / _pm at its end
    control_dict,    \* per row done: control_dict at its end
    tmc_local,       \* per row done: the local dictionary tmc at its end
    raised,          \* per row done: an exception was raised inside the call
    escaped,         \* an exception left _scrape_tmc
    veh_text,        \* _get_veh_vol in isolation: its text argument
    veh_key,         \*   its key argument
    veh_vol,         \*   its return value
    work,            \* per worker: the call of _scrape_tmc it is in
    par_data         \* per row: what a worker's call of _scrape_tmc returned

vars == <<pc, cls, period_filters, filter_options, collect_am, collect_md,
          collect_pm, rows, tmc_data, available, control_dict, tmc_local,
          raised, escaped, veh_text, veh_key, veh_vol, work, par_data>>

(***************************************************************************)
(* Python values.  Every value is tagged so that values of different       *)
(* Python types are different.                                             *)
(***************************************************************************)
None == <<"None">>
Raise == <<"raise">>
Num(n) == <<"int", n>>
Str(s) == <<"str", s>>
Win(h) == <<"win", h>>
NaN == <<"nan">>
Empty == <<>>

Labels == {"AM", "MD", "PM"}
LabelOrder == <<"AM", "MD", "PM">>

(***************************************************************************)
(* Bounds.                                                                 *)
(***************************************************************************)
MaxRun == 5
MaxSeg == 2
MaxBatch == 2
MaxWorkers == 2

RECURSIVE SeqMax(_)
SeqMax(s) ==
    IF Len(s) = 1 THEN s[1]
    ELSE LET m == SeqMax(Tail(s)) IN IF s[1] >= m THEN s[1] ELSE m

SeqsUpTo(S, n) == UNION {[1..k -> S] : k \in 0..n}

(***************************************************************************)
(* WebScraper.__init__, _set_filters, _apply_filters                       *)
(***************************************************************************)
DefaultFilterOptions == [l \in Labels |-> TRUE]

_set_filters(options, filters) ==
    [k \in DOMAIN options |-> IF k \in filters THEN TRUE ELSE options[k]]

WebScraper_init(filters) ==
    IF filters.given /\ filters.keys # {}
    THEN _set_filters(DefaultFilterOptions, filters.keys)
    ELSE DefaultFilterOptions

\* A constructor argument: None (given = FALSE) or a list of labels.
FilterArgs ==
    {[given |-> FALSE, keys |-> {}]}
        \cup {[given |-> TRUE, keys |-> K] : K \in SUBSET Labels}

Collect(l) ==
    CASE l = "AM" -> collect_am
      [] l = "MD" -> collect_md
      [] l = "PM" -> collect_pm

(***************************************************************************)
(* The period classification shared by the markup and the PDF reader.      *)
(***************************************************************************)
\* Classify with the upper AM bound excluded.
ClassifyMut(peak_start_hr) ==
    IF 6 <= peak_start_hr /\ peak_start_hr < 8 THEN "AM"
    ELSE IF 9 <= peak_start_hr /\ peak_start_hr <= 15 THEN "MD"
    ELSE IF 16 <= peak_start_hr /\ peak_start_hr <= 19 THEN "PM"
    ELSE "continue"

Classify(peak_start_hr) ==
    IF 6 <= peak_start_hr /\ peak_start_hr <= 8 THEN "AM"
    ELSE IF 9 <= peak_start_hr /\ peak_start_hr <= 15 THEN "MD"
    ELSE IF 16 <= peak_start_hr /\ peak_start_hr <= 19 THEN "PM"
    ELSE "continue"

NoControl == [l \in Labels |-> [check |-> None, table_key |-> None]]
NoneAvailable == [l \in Labels |-> FALSE]

\* The three assignments control_dict[L]['check'] = collect_L and available_L.
SetChecks(cd, av) ==
    [l \in Labels |-> [cd[l] EXCEPT !.check = Collect(l) /\ av[l]]]

\* Flags with the midday availability written under the AM key.
FlagsMut(av) ==
    ("AM_available" :> av["MD"]) @@ ("AM_scraped" :> collect_am) @@
    ("MD_available" :> av["MD"]) @@ ("MD_scraped" :> collect_md) @@
    ("PM_available" :> av["PM"]) @@ ("PM_scraped" :> collect_pm)

\* Flags with the scraped flag cut down to the available labels.
FlagsIntersect(av) ==
    ("AM_available" :> av["AM"]) @@ ("AM_scraped" :> (collect_am /\ av["AM"])) @@
    ("MD_available" :> av["MD"]) @@ ("MD_scraped" :> (collect_md /\ av["MD"])) @@
    ("PM_available" :> av["PM"]) @@ ("PM_scraped" :> (collect_pm /\ av["PM"]))

\* The six flag entries of the first tmc.update.
Flags(av) ==
    ("AM_available" :> av["AM"]) @@ ("AM_scraped" :> collect_am) @@
    ("MD_available" :> av["MD"]) @@ ("MD_scraped" :> collect_md) @@
    ("PM_available" :> av["PM"]) @@ ("PM_scraped" :> collect_pm)

Directions == <<"north", "east", "south", "west">>
Metrics == <<"bikes", "peds", "veh">>
VolKey(tag, d, m) == tag \o "_" \o d \o "_" \o m \o "_vol"
PeakKey(tag) == tag \o "_peak_hour"
PeriodKeys(tag) ==
    {PeakKey(tag)} \cup
    {VolKey(tag, Directions[i], Metrics[j]) : i \in 1..4, j \in 1..3}

\* dict.update: the entries of d2 replace or extend those of d1.
Update(d1, d2) == d2 @@ d1

\* A period block: the thirteen entries of the second tmc.update, or Raise
\* when the evaluation of one of the thirteen values raised.
Block(tag, peak, vol) ==
    IF peak = Raise \/ \E d \in 1..4, m \in 1..3 : vol[Directions[d]][Metrics[m]] = Raise
    THEN Raise
    ELSE [k \in PeriodKeys(tag) |->
            IF k = PeakKey(tag) THEN peak
            ELSE LET dm == CHOOSE p \in (1..4) \X (1..3) :
                              k = VolKey(tag, Directions[p[1]], Metrics[p[2]])
                 IN vol[Directions[dm[1]]][Metrics[dm[2]]]]

\* for key, value in control_dict.items(): if value.get('check'): tmc.update(..)
\* blocks[l] is the block evaluated for label l (Raise when it raised).  The
\* result is the dictionary as it stands when the loop ends or is left by an
\* exception, and whether it was left by an exception.
RECURSIVE PopulatePeriods(_, _, _, _)
PopulatePeriods(d, cd, blocks, i) ==
    IF i > Len(LabelOrder) THEN [tmc |-> d, exc |-> FALSE]
    ELSE LET l == LabelOrder[i] IN
         IF cd[l].check = TRUE
         THEN IF blocks[l] = Raise
              THEN [tmc |-> d, exc |-> TRUE]
              ELSE PopulatePeriods(Update(d, blocks[l]), cd, blocks, i + 1)
         ELSE PopulatePeriods(d, cd, blocks, i + 1)

(***************************************************************************)
(* RecentTMCScraper: the PDF reader.                                       *)
(* text.segs is re.split(r"Maximum Hour", text)[1:]; a segment is          *)
(*   win  - the time window that follows the marker (Win(h), h the start   *)
(*          hour) or None when no window follows it,                       *)
(*   pb   - the numbers tagged Bikes / Peds / PEDs, in text order,         *)
(*   scan - the numeric runs captured by the three vehicle patterns        *)
(*          (the empty run when a pattern does not match).                 *)
(***************************************************************************)
\* re.findall(r"Maximum Hour\s*\n*\s*(\d{2}:\d{2} - \d{2}:\d{2})", text)
Periods(text) ==
    LET F[i \in 0..Len(text.segs)] ==
            IF i = 0 THEN <<>>
            ELSE IF text.segs[i].win = None THEN F[i - 1]
                 ELSE Append(F[i - 1], text.segs[i].win)
    IN F[Len(text.segs)]

Recent_get_date(text) == IF text.date = Str("bad") THEN Raise ELSE text.date
\* str.lower()
Lower(v) == IF v = Str("Sunny") THEN Str("sunny") ELSE v

Recent_get_weather(text) == Lower(text.weather)
Recent_get_type(text) == text.type

Recent_get_peak_hour(text, key) ==
    LET elems == Periods(text) IN
    IF elems # <<>>
    THEN IF key < Len(elems) THEN elems[key + 1] ELSE Raise
    ELSE None

FirstN(s, n) == IF Len(s) <= n THEN s ELSE SubSeq(s, 1, n)

\* _get_peds_and_bikes_vol that keeps seven numbers of a section.
_get_peds_and_bikes_vol_Mut(text, key) ==
    LET elems == [i \in 1..Len(text.segs) |-> FirstN(text.segs[i].pb, 7)] IN
    IF elems # <<>>
    THEN IF key < Len(elems) THEN elems[key + 1] ELSE Raise
    ELSE None

_get_peds_and_bikes_vol(text, key) ==
    LET elems == [i \in 1..Len(text.segs) |-> FirstN(text.segs[i].pb, 8)] IN
    IF elems # <<>>
    THEN IF key < Len(elems) THEN elems[key + 1] ELSE Raise
    ELSE None

\* EastWest with east and west exchanged for runs longer than four.
EastWestSwapped(r) ==
    IF r # <<>>
    THEN IF Len(r) > 4
         THEN ("east" :> Num(r[1])) @@ ("west" :> Num(r[Len(r)]))
         ELSE IF Len(r) = 4
         THEN IF r[1] = r[2] /\ r[3] = r[4]
              THEN ("east" :> Num(r[Len(r)])) @@ ("west" :> Num(r[1]))
              ELSE LET decision == SeqMax(r) IN
                   ("east" :> IF decision = r[Len(r)] THEN Num(decision) ELSE None) @@
                   ("west" :> IF decision = r[1] THEN Num(decision) ELSE None)
         ELSE IF Len(r) = 3
         THEN LET decision == SeqMax(r) IN
              ("east" :> IF decision = r[Len(r)] THEN Num(decision) ELSE None) @@
              ("west" :> IF decision = r[1] THEN Num(decision) ELSE None)
         ELSE IF Len(r) = 2
         THEN ("east" :> Str("manual_check")) @@ ("west" :> Str("manual_check"))
         ELSE Empty
    ELSE Empty

\* EastWest whose west test of a three-element run looks at the last element.
EastWestLastOnly(r) ==
    IF r # <<>>
    THEN IF Len(r) > 4
         THEN ("east" :> Num(r[Len(r)])) @@ ("west" :> Num(r[1]))
         ELSE IF Len(r) = 4
         THEN IF r[1] = r[2] /\ r[3] = r[4]
              THEN ("east" :> Num(r[Len(r)])) @@ ("west" :> Num(r[1]))
              ELSE LET decision == SeqMax(r) IN
                   ("east" :> IF decision = r[Len(r)] THEN Num(decision) ELSE None) @@
                   ("west" :> IF decision = r[1] THEN Num(decision) ELSE None)
         ELSE IF Len(r) = 3
         THEN LET decision == SeqMax(r) IN
              ("east" :> IF decision = r[Len(r)] THEN Num(decision) ELSE None) @@
              ("west" :> IF decision = r[Len(r)] THEN Num(decision) ELSE None)
         ELSE IF Len(r) = 2
         THEN ("east" :> Str("manual_check")) @@ ("west" :> Str("manual_check"))
         ELSE Empty
    ELSE Empty

\* EastWest that leaves a two-element run unassigned.
EastWestNoSentinel(r) ==
    IF r # <<>>
    THEN IF Len(r) > 4
         THEN ("east" :> Num(r[Len(r)])) @@ ("west" :> Num(r[1]))
         ELSE IF Len(r) = 4
         THEN IF r[1] = r[2] /\ r[3] = r[4]
              THEN ("east" :> Num(r[Len(r)])) @@ ("west" :> Num(r[1]))
              ELSE LET decision == SeqMax(r) IN
                   ("east" :> IF decision = r[Len(r)] THEN Num(decision) ELSE None) @@
                   ("west" :> IF decision = r[1] THEN Num(decision) ELSE None)
         ELSE IF Len(r) = 3
         THEN LET decision == SeqMax(r) IN
              ("east" :> IF decision = r[Len(r)] THEN Num(decision) ELSE None) @@
              ("west" :> IF decision = r[1] THEN Num(decision) ELSE None)
         ELSE Empty
    ELSE Empty

\* The east / west part of _get_veh_vol: the entries added to elements from
\* results[1].
EastWest(r) ==
    IF r # <<>>
    THEN IF Len(r) > 4
         THEN ("east" :> Num(r[Len(r)])) @@ ("west" :> Num(r[1]))
         ELSE IF Len(r) = 4
         THEN IF r[1] = r[2] /\ r[3] = r[4]
              THEN ("east" :> Num(r[Len(r)])) @@ ("west" :> Num(r[1]))
              ELSE LET decision == SeqMax(r) IN
                   ("east" :> IF decision = r[Len(r)] THEN Num(decision) ELSE None) @@
                   ("west" :> IF decision = r[1] THEN Num(decision) ELSE None)
         ELSE IF Len(r) = 3
         THEN LET decision == SeqMax(r) IN
              ("east" :> IF decision = r[Len(r)] THEN Num(decision) ELSE None) @@
              ("west" :> IF decision = r[1] THEN Num(decision) ELSE None)
         ELSE IF Len(r) = 2
         THEN ("east" :> Str("manual_check")) @@ ("west" :> Str("manual_check"))
         ELSE Empty
    ELSE Empty

\* NorthSouth that takes the first number of scan 3 for south.
NorthSouthFirst(res) ==
    ("north" :> IF res[1] # <<>> THEN Num(res[1][1]) ELSE None) @@
    ("south" :> IF res[3] # <<>> THEN Num(res[3][1]) ELSE None)

NorthSouth(res) ==
    ("north" :> IF res[1] # <<>> THEN Num(res[1][1]) ELSE None) @@
    ("south" :> IF res[3] # <<>> THEN Num(SeqMax(res[3])) ELSE None)

_get_veh_vol(text, key) ==
    IF key >= Len(text.segs) THEN Raise
    ELSE LET res == text.segs[key + 1].scan IN
         Update(EastWest(res[2]), NorthSouth(res))

\* dict.get(k, None)
Get(d, k) == IF k \in DOMAIN d THEN d[k] ELSE None

\* peds_and_bikes_vol[i] if len(peds_and_bikes_vol) > i else None
PbAt(pb, i) ==
    IF pb = None THEN Raise
    ELSE IF Len(pb) > i THEN Num(pb[i + 1]) ELSE None

PdfBlock(text, tag, position) ==
    LET pb == _get_peds_and_bikes_vol(text, position)
        vv == _get_veh_vol(text, position)
    IN IF pb = Raise \/ vv = Raise THEN Raise
       ELSE Block(tag, Recent_get_peak_hour(text, position),
                [north |-> [bikes |-> PbAt(pb, 0), peds |-> PbAt(pb, 1),
                            veh |-> Get(vv, "north")],
                 east  |-> [bikes |-> PbAt(pb, 5), peds |-> PbAt(pb, 4),
                            veh |-> Get(vv, "east")],
                 south |-> [bikes |-> PbAt(pb, 7), peds |-> PbAt(pb, 6),
                            veh |-> Get(vv, "south")],
                 west  |-> [bikes |-> PbAt(pb, 2), peds |-> PbAt(pb, 3),
                            veh |-> Get(vv, "west")]])

\* The detection loop of _read_pdf: st is <<available, control_dict>> after
\* the windows periods[0 .. i-1].
PdfDetect(periods) ==
    LET F[i \in 0..Len(periods)] ==
            IF i = 0 THEN [av |-> NoneAvailable, cd |-> NoControl]
            ELSE LET prev == F[i - 1]
                     l == Classify(periods[i][2])
                 IN IF l \in Labels
                    THEN [av |-> [prev.av EXCEPT ![l] = TRUE],
                          cd |-> [prev.cd EXCEPT ![l].table_key = Num(i - 1)]]
                    ELSE prev
    IN F[Len(periods)]

\* The outcome of a reader: what it returns (ret), whether an exception was
\* raised inside it (exc) and whether it left the reader (esc), the dictionary
\* tmc as it stood when the reader was left, and the locals available_* and
\* control_dict.
Outcome(ret, exc, d, av, cd) ==
    [ret |-> ret, exc |-> exc, esc |-> exc, dict |-> d, av |-> av, cd |-> cd]

\* TryExcept whose handler returns the dictionary built so far.
TryExceptMut(body) == [body EXCEPT !.ret = body.dict, !.esc = FALSE]

\* try: ... return tmc  except Exception: return None
TryExcept(body) ==
    [body EXCEPT !.ret = IF body.exc THEN None ELSE body.dict, !.esc = FALSE]

_read_pdf_body(text) ==
    IF text.payload # "ok"
    THEN Outcome(None, TRUE, Empty, NoneAvailable, NoControl)
    ELSE LET det == PdfDetect(Periods(text))
             cd == SetChecks(det.cd, det.av)
             date == Recent_get_date(text)
         IN IF date = Raise
            THEN Outcome(None, TRUE, Empty, det.av, cd)
            ELSE LET head == ("date" :> date) @@
                             ("weather" :> Recent_get_weather(text)) @@
                             ("type" :> Recent_get_type(text)) @@ Flags(det.av)
                     blocks == [l \in Labels |->
                                  IF cd[l].check = TRUE
                                  THEN IF cd[l].table_key = None THEN Raise
                                       ELSE PdfBlock(text, l, cd[l].table_key[2])
                                  ELSE None]
                     pop == PopulatePeriods(head, cd, blocks, 1)
                 IN Outcome(None, pop.exc, pop.tmc, det.av, cd)

_read_pdf(text) == TryExcept(_read_pdf_body(text))

(***************************************************************************)
(* OldTMCScraper: the markup reader.                                       *)
(* soup.peak[k]    - the text of the peak-hour element of table k with     *)
(*                   "Maximum Hour " removed: Win(h), Str("") for an empty *)
(*                   text, Str("bad") for a text that does not start with  *)
(*                   two digits, None when the element does not exist;     *)
(* soup.sel[n]     - the cells selected by a selector that does not depend *)
(*                   on the table key;                                     *)
(* soup.tsel[n][k] - the cells selected by a selector built from key k.    *)
(* A cell is the list of the digit runs of its text.                       *)
(***************************************************************************)
Old_get_date(soup) == IF soup.date = Str("bad") THEN Raise ELSE soup.date

\* elements[0].text.split()[-1].lower() if elements else None
Old_get_weather(soup) ==
    IF soup.weather = Str("") THEN Raise ELSE Lower(soup.weather)

Old_get_type(soup) == soup.type

Old_get_peak_hour(soup, key) == soup.peak[key]

\* re.findall(r'\d+', cell)[0] and [-1]
FirstDigits(cell) == IF cell = <<>> THEN Raise ELSE Num(cell[1])
LastDigits(cell) == IF cell = <<>> THEN Raise ELSE Num(cell[Len(cell)])

RECURSIVE Concat(_)
Concat(ss) == IF ss = <<>> THEN <<>> ELSE Head(ss) \o Concat(Tail(ss))

_get_north_bikes_vol(soup, key) ==
    LET elems == soup.tsel["north_bikes"][key] IN
    IF elems # <<>> THEN FirstDigits(elems[1]) ELSE None

_get_north_peds_vol(soup, key) ==
    LET elems == soup.tsel["north_peds"][key] IN
    IF elems # <<>> THEN LastDigits(elems[1]) ELSE None

_get_north_veh_vol(soup, key) ==
    LET nums == Concat(soup.tsel["north_veh"][key]) IN
    IF Len(nums) > 2 THEN Num(nums[3]) ELSE None

_get_east_bikes_vol(soup, key) ==
    LET elems == soup.sel["bikes"] IN
    IF elems # <<>> /\ 0 <= 2 * key - 3 /\ 2 * key - 3 < Len(elems)
    THEN FirstDigits(elems[2 * key - 3 + 1]) ELSE None

_get_east_peds_vol(soup, key) ==
    LET elems == soup.sel["peds"] IN
    IF elems # <<>> /\ 0 <= 2 * key - 3 /\ 2 * key - 3 < Len(elems)
    THEN FirstDigits(elems[2 * key - 3 + 1]) ELSE None

_get_east_veh_vol(soup, key) ==
    LET elems == soup.sel["east_veh"] IN
    IF elems # <<>>
    THEN IF key - 2 < Len(elems) THEN FirstDigits(elems[key - 2 + 1]) ELSE Raise
    ELSE None

_get_south_bikes_vol(soup, key) ==
    LET elems == soup.sel["south_bikes"] IN
    IF elems # <<>> /\ 0 <= key - 2 /\ key - 2 < Len(elems)
    THEN FirstDigits(elems[key - 2 + 1]) ELSE None

_get_south_peds_vol(soup, key) ==
    LET elems == soup.sel["south_peds"] IN
    IF elems # <<>> /\ 0 <= key - 2 /\ key - 2 < Len(elems)
    THEN FirstDigits(elems[key - 2 + 1]) ELSE None

_get_south_veh_vol(soup, key) ==
    LET elems == soup.tsel["south_veh"][key] IN
    IF elems # <<>> THEN FirstDigits(elems[Len(elems)]) ELSE None

_get_west_bikes_vol(soup, key) ==
    LET elems == soup.sel["bikes"] IN
    IF elems # <<>> /\ 0 <= 2 * key - 4 /\ 2 * key - 4 < Len(elems)
    THEN FirstDigits(elems[2 * key - 4 + 1]) ELSE None

_get_west_peds_vol(soup, key) ==
    LET elems == soup.sel["peds"] IN
    IF elems # <<>> /\ 0 <= 2 * key - 4 /\ 2 * key - 4 < Len(elems)
    THEN FirstDigits(elems[2 * key - 4 + 1]) ELSE None

_get_west_veh_vol(soup, key) ==
    LET elems == soup.sel["west_veh"] IN
    IF elems # <<>>
    THEN IF key - 2 < Len(elems) THEN FirstDigits(elems[key - 2 + 1]) ELSE Raise
    ELSE None

OldBlock(soup, tag, position) ==
    Block(tag, Old_get_peak_hour(soup, position),
          [north |-> [bikes |-> _get_north_bikes_vol(soup, position),
                      peds |-> _get_north_peds_vol(soup, position),
                      veh |-> _get_north_veh_vol(soup, position)],
           east  |-> [bikes |-> _get_east_bikes_vol(soup, position),
                      peds |-> _get_east_peds_vol(soup, position),
                      veh |-> _get_east_veh_vol(soup, position)],
           south |-> [bikes |-> _get_south_bikes_vol(soup, position),
                      peds |-> _get_south_peds_vol(soup, position),
                      veh |-> _get_south_veh_vol(soup, position)],
           west  |-> [bikes |-> _get_west_bikes_vol(soup, position),
                      peds |-> _get_west_peds_vol(soup, position),
                      veh |-> _get_west_veh_vol(soup, position)]])

\* if period: (None and the empty string are false)
Truthy(v) == v # None /\ v # Str("") /\ v # Num(0)

\* OldDetect that keeps the position of the first window of a label.
OldDetectFirst(soup) ==
    LET F[i \in 1..4] ==
            IF i = 1 THEN [av |-> NoneAvailable, cd |-> NoControl, exc |-> FALSE]
            ELSE LET prev == F[i - 1]
                     period == soup.peak[i]
                 IN IF prev.exc \/ ~Truthy(period) THEN prev
                    ELSE IF period = Str("bad") THEN [prev EXCEPT !.exc = TRUE]
                    ELSE LET l == Classify(period[2]) IN
                         IF l \in Labels
                         THEN [av |-> [prev.av EXCEPT ![l] = TRUE],
                               cd |-> IF prev.cd[l].table_key = None
                                      THEN [prev.cd EXCEPT ![l].table_key = Num(i)]
                                      ELSE prev.cd,
                               exc |-> FALSE]
                         ELSE prev
    IN F[4]

\* The detection loop of OldTMCScraper._scrape_tmc, for i in range(2, 5).
\* exc: int(period[:2]) raised.
OldDetect(soup) ==
    LET F[i \in 1..4] ==
            IF i = 1 THEN [av |-> NoneAvailable, cd |-> NoControl, exc |-> FALSE]
            ELSE LET prev == F[i - 1]
                     period == Old_get_peak_hour(soup, i)
                 IN IF prev.exc \/ ~Truthy(period) THEN prev
                    ELSE IF period = Str("bad") THEN [prev EXCEPT !.exc = TRUE]
                    ELSE LET l == Classify(period[2]) IN
                         IF l \in Labels
                         THEN [av |-> [prev.av EXCEPT ![l] = TRUE],
                               cd |-> [prev.cd EXCEPT ![l].table_key = Num(i)],
                               exc |-> FALSE]
                         ELSE prev
    IN F[4]

Old_scrape_tmc_body(soup) ==
    IF soup.payload # "ok"
    THEN Outcome(None, TRUE, Empty, NoneAvailable, NoControl)
    ELSE LET det == OldDetect(soup) IN
         IF det.exc THEN Outcome(None, TRUE, Empty, det.av, det.cd)
         ELSE LET cd == SetChecks(det.cd, det.av)
                  date == Old_get_date(soup)
                  weather == Old_get_weather(soup)
              IN IF date = Raise \/ weather = Raise
                 THEN Outcome(None, TRUE, Empty, det.av, cd)
                 ELSE LET head == ("date" :> date) @@ ("weather" :> weather) @@
                                  ("type" :> Old_get_type(soup)) @@ Flags(det.av)
                          blocks == [l \in Labels |->
                                       IF cd[l].check = TRUE
                                       THEN IF cd[l].table_key = None THEN Raise
                                            ELSE OldBlock(soup, l, cd[l].table_key[2])
                                       ELSE None]
                          pop == PopulatePeriods(head, cd, blocks, 1)
                      IN Outcome(None, pop.exc, pop.tmc, det.av, cd)

\* OldTMCScraper._scrape_tmc(row): a NaN row is skipped before the try.
Old_scrape_tmc(r) ==
    IF r.Sub_URL = NaN
    THEN Outcome(None, FALSE, Empty, NoneAvailable, NoControl)
    ELSE TryExcept(Old_scrape_tmc_body(r.content))

(***************************************************************************)
(* RecentTMCScraper: the spreadsheet reader.                               *)
(* wb.ws is the worksheet 'Summary': a function from the cell addresses    *)
(* the getters use, <<column, row>>, to the cell values.  A time cell is   *)
(* <<"time", h, m, s>>, a count is Num(n), an empty cell is None.          *)
(***************************************************************************)
AnchorAM == 32
AnchorMD == 62
AnchorPM == 92
Anchors == <<AnchorAM, AnchorMD, AnchorPM>>
HourSeconds == 3600

Time(h, m, sec) == <<"time", h, m, sec>>

_xlsx_get_date(ws) == LET element == ws[<<"N", 15>>] IN
    IF Truthy(element) THEN element ELSE None

\* element.lower() if element else None: a number has no lower()
_xlsx_get_weather(ws) == LET element == ws[<<"V", 8>>] IN
    IF Truthy(element)
    THEN IF element[1] = "str" THEN Lower(element) ELSE Raise
    ELSE None

_xlsx_get_type(ws) == None

\* str(element)[:-3].rjust(5, '0'): the text "HH:MM" of a time cell
HHMM(element) == <<element[2], element[3]>>

\* The text "HH:MM - HH:MM", as <<"win", h1, m1, h2, m2>>.
_xlsx_get_peak_hour(ws, key) ==
    LET element_1 == ws[<<"N", key + 15>>]
        element_2 == ws[<<"P", key + 15>>]
    IN IF Truthy(element_1) /\ Truthy(element_2)
       THEN <<"win">> \o HHMM(element_1) \o HHMM(element_2)
       ELSE None

\* pd.to_datetime of a text "HH:MM": that time of the current day, here in
\* seconds since midnight.
ToDatetime(hm) == hm[1] * 3600 + hm[2] * 60

\* PeriodCheck that accepts every window of at least one hour.
PeriodCheckMut(period) ==
    LET peak_start == <<period[2], period[3]>>
        peak_end == <<period[4], period[5]>>
    IN ToDatetime(peak_end) - ToDatetime(peak_start) >= HourSeconds

\* (pd.to_datetime(peak_end) - pd.to_datetime(peak_start)).total_seconds() == 3600
PeriodCheck(period) ==
    LET peak_start == <<period[2], period[3]>>
        peak_end == <<period[4], period[5]>>
    IN ToDatetime(peak_end) - ToDatetime(peak_start) = HourSeconds

\* The branch of the detection loop taken for anchor i.
XlsxLabel(i, period_check) ==
    IF i = AnchorAM /\ period_check THEN "AM"
    ELSE IF i = AnchorMD /\ period_check THEN "MD"
    ELSE IF i = AnchorPM /\ period_check THEN "PM"
    ELSE "continue"

\* The detection loop of _read_xlsx, for i in [32, 62, 92].
XlsxDetect(ws) ==
    LET F[n \in 0..Len(Anchors)] ==
            IF n = 0 THEN [av |-> NoneAvailable, cd |-> NoControl]
            ELSE LET prev == F[n - 1]
                     i == Anchors[n]
                     period == _xlsx_get_peak_hour(ws, i)
                 IN IF period = None THEN prev
                    ELSE LET l == XlsxLabel(i, PeriodCheck(period)) IN
                         IF l \in Labels
                         THEN [av |-> [prev.av EXCEPT ![l] = TRUE],
                               cd |-> [prev.cd EXCEPT ![l].table_key = Num(i)]]
                         ELSE prev
    IN F[Len(Anchors)]

\* element = ws[...].value; return element if element else None
CellOrNone(ws, col, r) == LET element == ws[<<col, r>>] IN
    IF Truthy(element) THEN element ELSE None

_xlsx_get_north_bikes_vol(ws, key) == CellOrNone(ws, "M", key + 1)
_xlsx_get_north_peds_vol(ws, key) == CellOrNone(ws, "L", key + 2)
_xlsx_get_north_veh_vol(ws, key) == CellOrNone(ws, "M", key)
_xlsx_get_east_bikes_vol(ws, key) == CellOrNone(ws, "AA", key + 12)
_xlsx_get_east_peds_vol(ws, key) == CellOrNone(ws, "Z", key + 11)
_xlsx_get_east_veh_vol(ws, key) == CellOrNone(ws, "AB", key + 12)
_xlsx_get_south_bikes_vol(ws, key) == CellOrNone(ws, "P", key + 26)
_xlsx_get_south_peds_vol(ws, key) == CellOrNone(ws, "Q", key + 25)
_xlsx_get_south_veh_vol(ws, key) == CellOrNone(ws, "P", key + 27)
_xlsx_get_west_bikes_vol(ws, key) == CellOrNone(ws, "B", key + 15)
_xlsx_get_west_peds_vol(ws, key) == CellOrNone(ws, "C", key + 16)
_xlsx_get_west_veh_vol(ws, key) == CellOrNone(ws, "A", key + 15)

XlsxBlock(ws, tag, position) ==
    Block(tag, _xlsx_get_peak_hour(ws, position),
          [north |-> [bikes |-> _xlsx_get_north_bikes_vol(ws, position),
                      peds |-> _xlsx_get_north_peds_vol(ws, position),
                      veh |-> _xlsx_get_north_veh_vol(ws, position)],
           east  |-> [bikes |-> _xlsx_get_east_bikes_vol(ws, position),
                      peds |-> _xlsx_get_east_peds_vol(ws, position),
                      veh |-> _xlsx_get_east_veh_vol(ws, position)],
           south |-> [bikes |-> _xlsx_get_south_bikes_vol(ws, position),
                      peds |-> _xlsx_get_south_peds_vol(ws, position),
                      veh |-> _xlsx_get_south_veh_vol(ws, position)],
           west  |-> [bikes |-> _xlsx_get_west_bikes_vol(ws, position),
                      peds |-> _xlsx_get_west_peds_vol(ws, position),
                      veh |-> _xlsx_get_west_veh_vol(ws, position)]])

\* wb.payload: "ok", "error" (the download or load_workbook raises) or
\* "nosummary" (wb['Summary'] raises KeyError).
_read_xlsx_body(wb) ==
    IF wb.payload # "ok"
    THEN Outcome(None, TRUE, Empty, NoneAvailable, NoControl)
    ELSE LET ws == wb.ws
             det == XlsxDetect(ws)
             cd == SetChecks(det.cd, det.av)
             weather == _xlsx_get_weather(ws)
         IN IF weather = Raise
            THEN Outcome(None, TRUE, Empty, det.av, cd)
            ELSE LET head == ("date" :> _xlsx_get_date(ws)) @@
                             ("weather" :> weather) @@
                             ("type" :> _xlsx_get_type(ws)) @@ Flags(det.av)
                     blocks == [l \in Labels |->
                                  IF cd[l].check = TRUE
                                  THEN IF cd[l].table_key = None THEN Raise
                                       ELSE XlsxBlock(ws, l, cd[l].table_key[2])
                                  ELSE None]
                     pop == PopulatePeriods(head, cd, blocks, 1)
                 IN Outcome(None, pop.exc, pop.tmc, det.av, cd)

_read_xlsx(wb) == TryExcept(_read_xlsx_body(wb))

\* RecentTMCScraper._scrape_tmc(row)
Recent_scrape_tmc(r) ==
    IF r.Const_URL = NaN
    THEN Outcome(None, FALSE, Empty, NoneAvailable, NoControl)
    ELSE IF r.FileType = "pdf" THEN _read_pdf(r.content)
    ELSE IF r.FileType = "xlsx" THEN _read_xlsx(r.content)
    ELSE Outcome(None, FALSE, Empty, NoneAvailable, NoControl)

(***************************************************************************)
(* The documents the readers are run on.                                   *)
(***************************************************************************)
Hours == 0..23

\* --- markup ---
SelNames == {"bikes", "peds", "east_veh", "west_veh", "south_bikes", "south_peds"}
TSelNames == {"north_bikes", "north_peds", "north_veh", "south_veh"}
DefectKinds == {"empty", "short", "nodigit"}
NoDefect == <<"none", "none">>
Defects == (SelNames \cup TSelNames) \X DefectKinds

SelWidth(name) == IF name \in {"bikes", "peds"} THEN 6 ELSE 3

\* The cells a selector yields in a well-formed page; b tells the selections
\* apart by their numbers.
GoodCells(name, b) ==
    [i \in 1..SelWidth(name) |->
        IF name = "north_peds" THEN <<0, b + i>> ELSE <<b + i>>]

Cells(name, b, defect) ==
    IF defect[1] # name THEN GoodCells(name, b)
    ELSE CASE defect[2] = "empty" -> <<>>
           [] defect[2] = "short" -> SubSeq(GoodCells(name, b), 1, 1)
           [] defect[2] = "nodigit" -> [i \in 1..SelWidth(name) |-> <<>>]

SelBase(name) ==
    CASE name = "bikes" -> 10 [] name = "peds" -> 20 [] name = "east_veh" -> 30
      [] name = "west_veh" -> 40 [] name = "south_bikes" -> 50
      [] name = "south_peds" -> 60 [] name = "north_bikes" -> 70
      [] name = "north_peds" -> 80 [] name = "north_veh" -> 90
      [] name = "south_veh" -> 100

Soup(p2, p3, p4, date, weather, type, defect) ==
    [payload |-> "ok",
     peak |-> (2 :> p2) @@ (3 :> p3) @@ (4 :> p4),
     date |-> date, weather |-> weather, type |-> type,
     sel |-> [n \in SelNames |-> Cells(n, SelBase(n), defect)],
     tsel |-> [n \in TSelNames |->
                 [k \in 2..4 |-> Cells(n, SelBase(n) + 200 * k, defect)]]]

OldRow(soup) == [Sub_URL |-> Str("url"), content |-> soup]

Peaks2 == {None, Str(""), Str("bad")} \cup {Win(h) : h \in Hours}
Peaks34 == {None, Win(7), Win(12), Win(17), Win(21)}

OldRows ==
    {[Sub_URL |-> NaN], OldRow([payload |-> "error"])}
    \cup {OldRow(Soup(p2, p3, p4, Str("date"), Str("Sunny"), Str("type"), NoDefect)) :
            p2 \in Peaks2, p3 \in Peaks34, p4 \in Peaks34}
    \cup {OldRow(Soup(p2, p3, p4, Str("date"), Str("Sunny"), Str("type"), df)) :
            p2 \in {None, Win(7)}, p3 \in {None, Win(12)}, p4 \in {None, Win(17)},
            df \in Defects}
    \cup {OldRow(Soup(p2, Win(12), None, date, weather, None, NoDefect)) :
            p2 \in {None, Win(7)},
            date \in {None, Str("date"), Str("bad")},
            weather \in {None, Str("sunny"), Str("")}}

\* --- pdf ---
FullPb == <<1, 2, 3, 4, 5, 6, 7, 8, 9>>
FullScan == <<<<11, 12>>, <<21, 22, 23, 24, 25>>, <<31, 33, 32>>>>
Seg(win, pb, scan) == [win |-> win, pb |-> pb, scan |-> scan]

PdfSegs ==
    {Seg(w, FullPb, FullScan) :
        w \in {None} \cup {Win(h) : h \in {5, 6, 8, 9, 15, 16, 19, 20}}}
    \cup {Seg(w, ps[1], <<<<11>>, ps[2], <<31>>>>) :
            w \in {Win(7), Win(17)},
            ps \in {<<<<>>, <<>>>>, <<<<1, 2, 3>>, <<5, 9>>>>,
                    <<FullPb, <<9, 5>>>>, <<<<1, 2, 3>>, <<7, 7>>>>}}

Text(date, weather, type, segs) ==
    [payload |-> "ok", date |-> date, weather |-> weather, type |-> type,
     segs |-> segs]

PdfRow(text) == [Const_URL |-> Str("url"), FileType |-> "pdf", content |-> text]

PdfRows ==
    {PdfRow([payload |-> "error"])}
    \cup {PdfRow(Text(Str("date"), Str("Sunny"), Str("type"), segs)) :
            segs \in SeqsUpTo(PdfSegs, MaxSeg)}
    \cup {PdfRow(Text(Str("date"), Str("Sunny"), Str("type"),
                      <<Seg(Win(h), FullPb, FullScan)>>)) : h \in Hours}
    \cup {PdfRow(Text(date, weather, None, <<Seg(Win(7), FullPb, FullScan)>>)) :
            date \in {None, Str("date"), Str("bad")},
            weather \in {None, Str("sunny")}}

\* --- spreadsheet ---
VolCells ==
    <<<<"M", 1>>, <<"L", 2>>, <<"M", 0>>, <<"AA", 12>>, <<"Z", 11>>, <<"AB", 12>>,
      <<"P", 26>>, <<"Q", 25>>, <<"P", 27>>, <<"B", 15>>, <<"C", 16>>, <<"A", 15>>>>

\* The worksheet with the window cells wins[n] = <<start, end>> at anchor n and
\* counts in all volume cells, except that the cell VolCells[hole[1]] of every
\* anchor holds hole[2].
Sheet(wins, date, weather, hole) ==
    LET Vol(n, c) == IF c = hole[1] THEN hole[2] ELSE Num(100 * n + c)
    IN (<<"N", 15>> :> date) @@ (<<"V", 8>> :> weather) @@
       [a \in UNION {{<<"N", Anchors[n] + 15>>, <<"P", Anchors[n] + 15>>} \cup
                     {<<VolCells[c][1], Anchors[n] + VolCells[c][2]>> : c \in 1..12} :
                     n \in 1..3} |->
           LET n == CHOOSE n \in 1..3 : Anchors[n] <= a[2] /\ a[2] < Anchors[n] + 30
               off == a[2] - Anchors[n]
           IN IF a[1] = "N" /\ off = 15 THEN wins[n][1]
              ELSE IF a[1] = "P" /\ off = 15 THEN wins[n][2]
              ELSE Vol(n, CHOOSE c \in 1..12 : VolCells[c] = <<a[1], off>>)]

NoHole == <<0, None>>

XWins ==
    {<<None, None>>, <<Time(7, 0, 0), None>>, <<None, Time(8, 0, 0)>>,
     <<Time(7, 0, 0), Time(8, 0, 0)>>, <<Time(7, 30, 0), Time(8, 30, 0)>>,
     <<Time(7, 0, 0), Time(8, 15, 0)>>, <<Time(7, 0, 0), Time(7, 45, 0)>>,
     <<Time(0, 0, 0), Time(1, 0, 0)>>, <<Time(23, 30, 0), Time(0, 30, 0)>>,
     <<Time(8, 0, 0), Time(7, 0, 0)>>, <<Time(7, 0, 30), Time(8, 0, 0)>>}

XlsxRow(wb) == [Const_URL |-> Str("url"), FileType |-> "xlsx", content |-> wb]
Workbook(ws) == [payload |-> "ok", ws |-> ws]

XlsxRows ==
    {XlsxRow([payload |-> "error"]), XlsxRow([payload |-> "nosummary"])}
    \cup {XlsxRow(Workbook(Sheet(<<w1, w2, w3>>, Str("date"), Str("Sunny"), NoHole))) :
            w1 \in XWins, w2 \in XWins, w3 \in XWins}
    \cup {XlsxRow(Workbook(Sheet(<<w1, w1, <<None, None>>>>, date, weather, NoHole))) :
            w1 \in {<<None, None>>, <<Time(7, 0, 0), Time(8, 0, 0)>>},
            date \in {None, Str("date")},
            weather \in {None, Str("sunny"), Num(5)}}
    \cup {XlsxRow(Workbook(Sheet(<<w1, w1, w1>>, Str("date"), Str("Sunny"), <<c, v>>))) :
            w1 \in {<<Time(7, 0, 0), Time(8, 0, 0)>>},
            c \in 1..12, v \in {None, Num(0)}}

RecentRows ==
    {[Const_URL |-> NaN, FileType |-> "pdf"],
     [Const_URL |-> Str("url"), FileType |-> "doc"]}
    \cup PdfRows \cup XlsxRows

\* --- batches ---
BatchOldRows ==
    {[Sub_URL |-> NaN], OldRow([payload |-> "error"]),
     OldRow(Soup(Win(7), Win(12), None, Str("date"), Str("Sunny"), Str("type"), NoDefect)),
     OldRow(Soup(Win(7), Win(12), None, Str("date"), Str("Sunny"), Str("type"),
                 <<"east_veh", "short">>)),
     OldRow(Soup(Win(17), None, None, Str("bad"), Str("Sunny"), Str("type"), NoDefect))}

BatchRecentRows ==
    {[Const_URL |-> NaN, FileType |-> "pdf"],
     PdfRow([payload |-> "error"]),
     PdfRow(Text(Str("date"), Str("Sunny"), Str("type"),
                 <<Seg(Win(8), FullPb, FullScan), Seg(Win(16), <<1, 2, 3>>, <<<<11>>, <<5, 9>>, <<31>>>>)>>)),
     XlsxRow([payload |-> "nosummary"]),
     XlsxRow(Workbook(Sheet(<<<<Time(7, 0, 0), Time(8, 0, 0)>>, <<None, None>>,
                              <<Time(16, 30, 0), Time(17, 30, 0)>>>>,
                            Str("date"), Str("Sunny"), NoHole)))}

(***************************************************************************)
(* _get_veh_vol in isolation: texts of one or two segments whose scans     *)
(* yield every run of up to MaxRun numbers.                                *)
(***************************************************************************)
RunVals == {10, 15, 20}
VehTexts ==
    {[payload |-> "ok", segs |-> <<Seg(Win(7), FullPb, <<r1, r2, r3>>)>>] :
        r1 \in {<<>>, <<11, 12>>}, r2 \in SeqsUpTo(RunVals, MaxRun),
        r3 \in {<<>>, <<31, 33, 32>>}}

(***************************************************************************)
(* Workers that share one scraper object: each call of _scrape_tmc has its *)
(* own locals (tmc, available_*, control_dict) and reads self.collect_*.   *)
(***************************************************************************)
Workers == 1..MaxWorkers

\* The rows handed to the workers: a missing URL, a document with two
\* periods and one whose date getter raises; a PDF, a workbook and a
\* document that cannot be read.
ParOldRows ==
    {[Sub_URL |-> NaN],
     OldRow(Soup(Win(7), Win(12), None, Str("date"), Str("Sunny"), Str("type"), NoDefect)),
     OldRow(Soup(Win(17), None, None, Str("bad"), Str("Sunny"), Str("type"), NoDefect))}

ParRecentRows ==
    {PdfRow([payload |-> "error"]),
     PdfRow(Text(Str("date"), Str("Sunny"), Str("type"),
                 <<Seg(Win(8), FullPb, FullScan), Seg(Win(16), <<1, 2, 3>>, <<<<11>>, <<5, 9>>, <<31>>>>)>>)),
     XlsxRow(Workbook(Sheet(<<<<Time(7, 0, 0), Time(8, 0, 0)>>, <<None, None>>,
                              <<Time(16, 30, 0), Time(17, 30, 0)>>>>,
                            Str("date"), Str("Sunny"), NoHole)))}
Pending == <<"pending">>
Taken == <<"taken">>
NoOutcome == Outcome(None, FALSE, Empty, NoneAvailable, NoControl)
Idle == [phase |-> "idle", row |-> 0, out |-> NoOutcome]

(***************************************************************************)
(* State machine.                                                          *)
(***************************************************************************)
NoArgs == [given |-> FALSE, keys |-> {}]
NoText == [payload |-> "ok", segs |-> <<>>]

InitSelf ==
    /\ pc = "new"
    /\ period_filters = NoArgs
    /\ filter_options = [l \in Labels |-> FALSE]
    /\ collect_am = FALSE
    /\ collect_md = FALSE
    /\ collect_pm = FALSE
    /\ tmc_data = <<>>
    /\ available = <<>>
    /\ control_dict = <<>>
    /\ tmc_local = <<>>
    /\ raised = <<>>
    /\ escaped = FALSE
    /\ veh_vol = None
    /\ work = [w \in Workers |-> Idle]

\* The rows are the table handed to scrape_tmc_counts: one row out of all
\* modelled documents, or a batch of up to MaxBatch rows.
Init ==
    /\ InitSelf
    /\ cls \in {"Old", "Recent"}
    /\ rows \in IF cls = "Old"
                THEN {<<r>> : r \in OldRows} \cup SeqsUpTo(BatchOldRows, MaxBatch)
                ELSE {<<r>> : r \in RecentRows} \cup SeqsUpTo(BatchRecentRows, MaxBatch)
    /\ veh_text = NoText
    /\ veh_key = 0
    /\ par_data = <<>>

docVars == <<tmc_data, available, control_dict, tmc_local, raised, escaped>>
vehVars == <<veh_text, veh_key, veh_vol>>
selfVars == <<pc, cls, period_filters, filter_options, collect_am, collect_md,
              collect_pm>>
parVars == <<work, par_data>>

\* WebScraper.__init__, run by the constructor of the subclass.
Construct(filters) ==
    /\ pc = "new"
    /\ pc' = "ready"
    /\ period_filters' = filters
    /\ filter_options' = WebScraper_init(filters)
    /\ collect_am' = filter_options'["AM"]
    /\ collect_pm' = filter_options'["PM"]
    /\ collect_md' = filter_options'["MD"]
    /\ UNCHANGED <<cls, rows, docVars, vehVars, parVars>>

OldTMCScraper_init == cls = "Old" /\ \E f \in FilterArgs : Construct(f)

RecentTMCScraper_init == cls = "Recent" /\ \E f \in FilterArgs : Construct(f)

\* scrape_tmc_counts: the next application of _scrape_tmc, with outcome o.
\* An exception that leaves _scrape_tmc ends the batch.
Applied(o) ==
    /\ tmc_data' = Append(tmc_data, o.ret)
    /\ available' = Append(available, o.av)
    /\ control_dict' = Append(control_dict, o.cd)
    /\ tmc_local' = Append(tmc_local, o.dict)
    /\ raised' = Append(raised, o.exc)
    /\ escaped' = o.esc
    /\ UNCHANGED <<selfVars, rows, vehVars, parVars>>

OldScrapeTmc ==
    /\ pc = "ready" /\ cls = "Old" /\ ~escaped
    /\ Len(tmc_data) < Len(rows)
    /\ Applied(Old_scrape_tmc(rows[Len(tmc_data) + 1]))

RecentScrapeTmc ==
    /\ pc = "ready" /\ cls = "Recent" /\ ~escaped
    /\ Len(tmc_data) < Len(rows)
    /\ Applied(Recent_scrape_tmc(rows[Len(tmc_data) + 1]))

Next ==
    \/ OldTMCScraper_init
    \/ RecentTMCScraper_init
    \/ OldScrapeTmc
    \/ RecentScrapeTmc

Spec == Init /\ [][Next]_vars

\* _get_veh_vol applied to a text and a key.
InitVeh ==
    /\ InitSelf
    /\ cls = "Recent"
    /\ rows = <<>>
    /\ veh_text \in VehTexts
    /\ veh_key \in 0..1
    /\ par_data = <<>>

GetVehVol ==
    /\ veh_vol' = _get_veh_vol(veh_text, veh_key)
    /\ UNCHANGED <<selfVars, rows, docVars, veh_text, veh_key, parVars>>

NextVeh == GetVehVol

SpecVeh == InitVeh /\ [][NextVeh]_vars

\* A batch handed to workers that call _scrape_tmc on one scraper object.
InitPar ==
    /\ InitSelf
    /\ cls \in {"Old", "Recent"}
    /\ rows \in IF cls = "Old" THEN SeqsUpTo(ParOldRows, MaxBatch)
                ELSE SeqsUpTo(ParRecentRows, MaxBatch)
    /\ veh_text = NoText
    /\ veh_key = 0
    /\ par_data = [i \in 1..Len(rows) |-> Pending]

\* An idle worker takes any row no worker has taken.
Take(w) ==
    /\ pc = "ready" /\ work[w].phase = "idle"
    /\ \E i \in 1..Len(rows) :
        /\ par_data[i] = Pending
        /\ work' = [work EXCEPT ![w] = [phase |-> "called", row |-> i, out |-> NoOutcome]]
        /\ par_data' = [par_data EXCEPT ![i] = Taken]
    /\ UNCHANGED <<selfVars, rows, docVars, vehVars>>

\* _scrape_tmc under a mutant that leaves the checks in self.collect_*.
WorkerScrapeShared(w) ==
    /\ work[w].phase = "called"
    /\ LET r == rows[work[w].row]
           o == IF cls = "Old" THEN Old_scrape_tmc(r) ELSE Recent_scrape_tmc(r)
       IN /\ work' = [work EXCEPT ![w].phase = "returned", ![w].out = o]
          /\ collect_am' = (collect_am /\ o.av["AM"])
          /\ collect_md' = (collect_md /\ o.av["MD"])
          /\ collect_pm' = (collect_pm /\ o.av["PM"])
    /\ UNCHANGED <<pc, cls, period_filters, filter_options, rows, docVars,
                   vehVars, par_data>>

\* The worker's call of _scrape_tmc on its row: it reads self.collect_* and
\* assigns only to its locals.
WorkerScrape(w) ==
    /\ work[w].phase = "called"
    /\ LET r == rows[work[w].row]
           o == IF cls = "Old" THEN Old_scrape_tmc(r) ELSE Recent_scrape_tmc(r)
       IN work' = [work EXCEPT ![w].phase = "returned", ![w].out = o]
    /\ UNCHANGED <<selfVars, rows, docVars, vehVars, par_data>>

\* The value the call returned becomes the row's entry of the result.
Deliver(w) ==
    /\ work[w].phase = "returned"
    /\ par_data' = [par_data EXCEPT ![work[w].row] = work[w].out.ret]
    /\ work' = [work EXCEPT ![w] = Idle]
    /\ UNCHANGED <<selfVars, rows, docVars, vehVars>>

NextPar ==
    \/ OldTMCScraper_init
    \/ RecentTMCScraper_init
    \/ \E w \in Workers : Take(w)
    \/ \E w \in Workers : WorkerScrape(w)
    \/ \E w \in Workers : Deliver(w)

SpecPar == InitPar /\ [][NextPar]_vars

(***************************************************************************)
(* Properties.                                                             *)
(***************************************************************************)
Done == 1..Len(tmc_data)
Range(q) == {q[j] : j \in 1..Len(q)}
MaxOf(q) == CHOOSE x \in Range(q) : \A y \in Range(q) : y <= x

IsMarkup(i) == cls = "Old" /\ rows[i].Sub_URL # NaN
IsRecent(i, type) ==
    cls = "Recent" /\ rows[i].Const_URL # NaN /\ rows[i].FileType = type
IsPdf(i) == IsRecent(i, "pdf")
IsXlsx(i) == IsRecent(i, "xlsx")
PayloadOk(i) == rows[i].content.payload = "ok"

DocKeys == {"date", "weather", "type"} \cup
           {l \o "_available" : l \in Labels} \cup {l \o "_scraped" : l \in Labels}

InRange(l, h) ==
    CASE l = "AM" -> h \in 6..8
      [] l = "MD" -> h \in 9..15
      [] l = "PM" -> h \in 16..19

\* The peak windows detected in row i, as <<position, start hour>>.
DetectedWindows(i) ==
    IF IsMarkup(i)
    THEN {<<k, rows[i].content.peak[k][2]>> :
            k \in {j \in 2..4 : rows[i].content.peak[j][1] = "win"}}
    ELSE LET ps == Periods(rows[i].content) IN
         {<<j - 1, ps[j][2]>> : j \in 1..Len(ps)}

\* The detection loop of row i ran to its end.
Detected(i) ==
    /\ IsMarkup(i) \/ IsPdf(i)
    /\ PayloadOk(i)
    /\ IsMarkup(i) => \A k \in 2..4 : rows[i].content.peak[k] # Str("bad")

\* C1: in the markup and the PDF reader a detected window with start hour h
\* in 0..23 counts for AM iff 6 <= h <= 8, for MD iff 9 <= h <= 15, for PM iff
\* 16 <= h <= 19 and for no label otherwise: a label is available exactly when
\* some detected window lies in its range, and its position is set exactly
\* then, to the position of a window in its range.
C1_Classification ==
    \A i \in Done : Detected(i) =>
        /\ \A w \in DetectedWindows(i) : w[2] \in Hours
        /\ \A l \in Labels :
            LET key == control_dict[i][l].table_key IN
            /\ available[i][l] <=> \E w \in DetectedWindows(i) : InRange(l, w[2])
            /\ key = None <=> ~available[i][l]
            /\ key # None =>
                 \E w \in DetectedWindows(i) : w[1] = key[2] /\ InRange(l, w[2])

\* A PDF page with windows at 08:00 (AM) and 20:00 (no label) was read.
C1_Witness ==
    \E i \in Done :
        /\ IsPdf(i) /\ Detected(i)
        /\ {w[2] : w \in DetectedWindows(i)} = {8, 20}
        /\ available[i] = [l \in Labels |-> l = "AM"]
        /\ control_dict[i]["PM"].table_key = None

\* C2: in every returned record and for every label, the thirteen period keys
\* of the label are all present if L_available and L_scraped are both true in
\* the record, and none is present otherwise.
C2_PeriodFieldsIffFlags ==
    \A i \in Done : tmc_data[i] # None =>
        \A l \in Labels :
            LET t == tmc_data[i]
                on == t[l \o "_available"] /\ t[l \o "_scraped"]
            IN /\ on => PeriodKeys(l) \subseteq DOMAIN t
               /\ ~on => PeriodKeys(l) \cap DOMAIN t = {}

\* A record with the AM block populated and no MD key.
C2_Witness ==
    \E i \in Done :
        /\ tmc_data[i] # None
        /\ tmc_data[i]["AM_available"] /\ ~tmc_data[i]["MD_available"]
        /\ PeriodKeys("AM") \subseteq DOMAIN tmc_data[i]
        /\ PeriodKeys("MD") \cap DOMAIN tmc_data[i] = {}

\* C3: with a non-empty filter that is a proper subset of the labels, every
\* label outside the filter has its scraped flag false and no period key in
\* every record; with no filter all three labels are requested.
C3_FilterRestricts ==
    /\ pc = "ready" /\ ~period_filters.given =>
            collect_am /\ collect_md /\ collect_pm
    /\ pc = "ready" /\ period_filters.given /\ period_filters.keys # {}
          /\ period_filters.keys # Labels =>
            \A i \in Done : tmc_data[i] # None =>
                \A l \in Labels \ period_filters.keys :
                    /\ ~tmc_data[i][l \o "_scraped"]
                    /\ PeriodKeys(l) \cap DOMAIN tmc_data[i] = {}

\* C4: with the empty filter every record has the document-level keys and no
\* period key of any label.
C4_EmptyFilterNoPeriods ==
    pc = "ready" /\ period_filters.given /\ period_filters.keys = {} =>
        \A i \in Done : tmc_data[i] # None =>
            /\ DocKeys \subseteq DOMAIN tmc_data[i]
            /\ \A l \in Labels : PeriodKeys(l) \cap DOMAIN tmc_data[i] = {}

\* What _scrape_tmc returns for row r taken alone.
Alone(r) == IF cls = "Old" THEN Old_scrape_tmc(r).ret ELSE Recent_scrape_tmc(r).ret

\* C5: a row in whose call an exception was raised yields None, whatever the
\* dictionary held when it was raised; a returned record is the complete
\* dictionary; no exception leaves _scrape_tmc (which is all that stops a
\* batch), and every row's outcome is the one it has when taken alone.
C5_FaultIsFailure ==
    /\ ~escaped
    /\ \A i \in Done :
        /\ raised[i] => tmc_data[i] = None
        /\ tmc_data[i] # None =>
             tmc_data[i] = tmc_local[i] /\ DocKeys \subseteq DOMAIN tmc_data[i]
        /\ tmc_data[i] = Alone(rows[i])

\* A row whose call raised after the AM block had been collected is followed
\* in its batch by a row that yields a record.
C5_Witness ==
    \E i \in Done, j \in Done :
        /\ i < j
        /\ raised[i] /\ tmc_data[i] = None
        /\ PeriodKeys("AM") \subseteq DOMAIN tmc_local[i]
        /\ tmc_data[j] # None

\* The scan-2 run of the segment _get_veh_vol was called on.
InSegment == veh_key < Len(veh_text.segs)
Run2 == veh_text.segs[veh_key + 1].scan[2]
Called == veh_vol # None
East == Get(veh_vol, "east")
West == Get(veh_vol, "west")
Definite(v) ==
    v = None \/ v = Str("manual_check") \/ \E n \in RunVals : v = Num(n)

C6_State ==
    Called /\ InSegment =>
        /\ veh_vol # Raise
        /\ Definite(East) /\ Definite(West)
        /\ Len(Run2) > 4 =>
             West = Num(Run2[1]) /\ East = Num(Run2[Len(Run2)])
        /\ Len(Run2) = 4 /\ Run2[1] = Run2[2] /\ Run2[3] = Run2[4] =>
             West = Num(Run2[1]) /\ East = Num(Run2[4])
        /\ Len(Run2) < 2 => West = None /\ East = None

\* C6: for every scan-2 run _get_veh_vol returns without raising a definite
\* east and west (absent, a number of the run or the sentinel): first and last
\* element for more than four elements and for four elements that pair up,
\* absent for fewer than two; and a repeated call returns the same.
C6_Total ==
    /\ []C6_State
    /\ [][Called => veh_vol' = veh_vol]_vars

\* The run [10, 10, 20, 20] gave west = 10 and east = 20.
C6_Witness ==
    /\ Called /\ InSegment
    /\ Run2 = <<10, 10, 20, 20>>
    /\ West = Num(10) /\ East = Num(20)

Unpaired(r) == Len(r) = 3 \/ (Len(r) = 4 /\ ~(r[1] = r[2] /\ r[3] = r[4]))

\* C7 as claimed: for a run of three, or of four that does not pair up, the
\* maximum goes to east when only the last element equals it, to west when
\* only the first does, and both are absent when it equals neither end or
\* both ends.
C7_TieAbsent ==
    Called /\ InSegment /\ Unpaired(Run2) =>
        LET m == MaxOf(Run2)
            first == Run2[1] = m
            last == Run2[Len(Run2)] = m
        IN /\ last /\ ~first => East = Num(m) /\ West = None
           /\ first /\ ~last => West = Num(m) /\ East = None
           /\ ~first /\ ~last => East = None /\ West = None
           /\ first /\ last => East = None /\ West = None

\* C7 amended: ... and when the maximum equals both the first and the last
\* element, east and west are both the maximum.
C7_TieBoth ==
    Called /\ InSegment /\ Unpaired(Run2) =>
        LET m == MaxOf(Run2)
            first == Run2[1] = m
            last == Run2[Len(Run2)] = m
        IN /\ last /\ ~first => East = Num(m) /\ West = None
           /\ first /\ ~last => West = Num(m) /\ East = None
           /\ ~first /\ ~last => East = None /\ West = None
           /\ first /\ last => East = Num(m) /\ West = Num(m)

\* The run [20, 10, 20] gave east = west = 20.
C7_Witness ==
    /\ Called /\ InSegment
    /\ Run2 = <<20, 10, 20>>
    /\ East = Num(20) /\ West = Num(20)

\* The labels of row i whose block is read from a segment with a scan-2 run
\* of two elements.
TwoRunLabels(i) ==
    {l \in Labels :
        /\ control_dict[i][l].check = TRUE
        /\ control_dict[i][l].table_key # None
        /\ Len(rows[i].content.segs[control_dict[i][l].table_key[2] + 1].scan[2]) = 2}

\* C8: a PDF page one of whose populated periods has a scan-2 run of exactly
\* two elements yields a record, and in it the east and west vehicle volume
\* of that period are the sentinel 'manual_check'.
C8_Sentinel ==
    \A i \in Done :
        IsPdf(i) /\ PayloadOk(i) /\ rows[i].content.date # Str("bad") =>
            \A l \in TwoRunLabels(i) :
                /\ tmc_data[i] # None
                /\ tmc_data[i][VolKey(l, "east", "veh")] = Str("manual_check")
                /\ tmc_data[i][VolKey(l, "west", "veh")] = Str("manual_check")

\* A record whose AM block comes from a segment with the run [5, 9].
C8_Witness ==
    \E i \in Done :
        /\ IsPdf(i) /\ tmc_data[i] # None
        /\ "AM" \in TwoRunLabels(i)
        /\ rows[i].content.segs[control_dict[i]["AM"].table_key[2] + 1].scan[2] = <<5, 9>>
        /\ tmc_data[i]["AM_east_veh_vol"] = Str("manual_check")

\* The window cells of anchor n in the sheet of row i.
StartCell(i, n) == rows[i].content.ws[<<"N", Anchors[n] + 15>>]
EndCell(i, n) == rows[i].content.ws[<<"P", Anchors[n] + 15>>]
\* The duration in seconds of the window HH:MM - HH:MM the two cells show.
WindowSeconds(i, n) ==
    (EndCell(i, n)[2] * 60 + EndCell(i, n)[3]
        - (StartCell(i, n)[2] * 60 + StartCell(i, n)[3])) * 60

\* C9: in the spreadsheet reader the label of an anchor (32 AM, 62 MD, 92 PM)
\* is available iff both window cells of that anchor are present and the
\* window lasts 3600 seconds; the windows of the other anchors do not matter.
C9_AnchorDuration ==
    \A i \in Done : IsXlsx(i) /\ PayloadOk(i) =>
        \A n \in 1..3 :
            available[i][LabelOrder[n]] <=>
                /\ StartCell(i, n) # None /\ EndCell(i, n) # None
                /\ WindowSeconds(i, n) = 3600

\* A sheet whose AM window lasts an hour and whose MD window lasts 75 minutes.
C9_Witness ==
    \E i \in Done :
        /\ IsXlsx(i) /\ PayloadOk(i)
        /\ available[i]["AM"] /\ ~available[i]["MD"]
        /\ StartCell(i, 2) # None /\ EndCell(i, 2) # None
        /\ WindowSeconds(i, 2) = 4500

\* Row i is a document that can be fetched and whose detection loop and
\* document-level getters do not raise.
DocumentLevelFine(i) ==
    \/ /\ IsMarkup(i) /\ PayloadOk(i)
       /\ \A k \in 2..4 : rows[i].content.peak[k] # Str("bad")
       /\ rows[i].content.date # Str("bad")
       /\ rows[i].content.weather # Str("")
    \/ IsPdf(i) /\ PayloadOk(i) /\ rows[i].content.date # Str("bad")
    \/ /\ IsXlsx(i) /\ PayloadOk(i)
       /\ rows[i].content.ws[<<"V", 8>>][1] # "int"

\* C10: a field whose position does not exist, whose index is out of range or
\* whose text has no digit run is absent and the document still yields a
\* record: no field getter raises.
C10_FieldFaultAbsorbed ==
    \A i \in Done : DocumentLevelFine(i) => ~raised[i] /\ tmc_data[i] # None


\* The volume cell of direction d and metric m at anchor n in the sheet of row i.
VolCell(i, n, d, m) ==
    LET c == VolCells[(d - 1) * 3 + m] IN
    rows[i].content.ws[<<c[1], Anchors[n] + c[2]>>]

\* Label l has its block in the record of row i.
Populated(i, l) == tmc_data[i] # None /\ PeakKey(l) \in DOMAIN tmc_data[i]

\* C11: in the spreadsheet reader each of the twelve volumes of a populated
\* period is absent iff its cell is empty; a cell holding 0 gives the value 0.
C11_ZeroIsNotAbsent ==
    \A i \in Done : IsXlsx(i) =>
        \A n \in 1..3 : Populated(i, LabelOrder[n]) =>
            \A d \in 1..4, m \in 1..3 :
                LET v == tmc_data[i][VolKey(LabelOrder[n], Directions[d], Metrics[m])]
                    cell == VolCell(i, n, d, m)
                IN /\ v = None <=> cell = None
                   /\ cell = Num(0) => v = Num(0)

\* The positions of the detected windows of row i that lie in the range of l.
PositionsOf(i, l) == {w[1] : w \in {x \in DetectedWindows(i) : InRange(l, x[2])}}
MinOf(S) == CHOOSE x \in S : \A y \in S : x <= y
MaxIn(S) == CHOOSE x \in S : \A y \in S : y <= x

\* The window text at position p of row i.
PeakAt(i, p) ==
    IF IsMarkup(i) THEN rows[i].content.peak[p]
    ELSE Periods(rows[i].content)[p + 1]

\* The position of label l is p and its block is read from p.
ReadFrom(i, l, p) ==
    /\ control_dict[i][l].table_key = Num(p)
    /\ Populated(i, l) =>
        /\ tmc_data[i][PeakKey(l)] = PeakAt(i, p)
        /\ IsMarkup(i) =>
             tmc_data[i][VolKey(l, "north", "bikes")]
                 = _get_north_bikes_vol(rows[i].content, p)

\* C12 as claimed: in the markup and the PDF reader the position of a label
\* is that of the first detected window in its range, and the block of the
\* label is read from there.
C12_FirstMatchWins ==
    \A i \in Done : Detected(i) =>
        \A l \in Labels : available[i][l] => ReadFrom(i, l, MinOf(PositionsOf(i, l)))

\* C12 amended: ... is that of the last detected window in its range (a later
\* window overwrites the position), and the block is read from there.
C12_LastMatchWins ==
    \A i \in Done : Detected(i) =>
        \A l \in Labels : available[i][l] => ReadFrom(i, l, MaxIn(PositionsOf(i, l)))

\* A page with AM windows in tables 2 and 3 whose AM block shows the window
\* of table 3.
C12_Witness ==
    \E i \in Done :
        /\ IsMarkup(i) /\ Detected(i) /\ Populated(i, "AM")
        /\ PositionsOf(i, "AM") = {2, 3}
        /\ rows[i].content.peak[2] # rows[i].content.peak[3]
        /\ control_dict[i]["AM"].table_key = Num(3)
        /\ tmc_data[i]["AM_peak_hour"] = rows[i].content.peak[3]

\* The order in which the claim and the code hand the first eight tagged
\* numbers of a segment to the fields, as <<direction, metric>>.
ClaimedOrder ==
    <<<<"north", "peds">>, <<"north", "bikes">>, <<"west", "peds">>,
      <<"west", "bikes">>, <<"east", "peds">>, <<"east", "bikes">>,
      <<"south", "peds">>, <<"south", "bikes">>>>
ReadOrder ==
    <<<<"north", "bikes">>, <<"north", "peds">>, <<"west", "bikes">>,
      <<"west", "peds">>, <<"east", "peds">>, <<"east", "bikes">>,
      <<"south", "peds">>, <<"south", "bikes">>>>

\* The tagged numbers of the segment the block of l is read from.
TaggedNumbers(i, l) ==
    rows[i].content.segs[control_dict[i][l].table_key[2] + 1].pb

\* In every PDF record the j-th of the first eight tagged numbers of the
\* segment is the field order[j], and a field beyond the list is absent.
PbAssigned(order) ==
    \A i \in Done : IsPdf(i) =>
        \A l \in Labels : Populated(i, l) =>
            \A j \in 1..8 :
                tmc_data[i][VolKey(l, order[j][1], order[j][2])]
                    = IF j <= Len(TaggedNumbers(i, l))
                      THEN Num(TaggedNumbers(i, l)[j]) ELSE None

\* C13 as claimed: the numbers go to north-ped, north-bike, west-ped,
\* west-bike, east-ped, east-bike, south-ped, south-bike.
C13_ClaimedOrder == PbAssigned(ClaimedOrder)

\* C13 amended: the numbers go to north-bike, north-ped, west-bike, west-ped,
\* east-ped, east-bike, south-ped, south-bike; a field at or beyond the
\* length of the list is absent.
C13_ReadOrder == PbAssigned(ReadOrder)

\* A record read from a segment with nine tagged numbers and one read from a
\* segment with three.
C13_Witness ==
    \E i \in Done : \E l \in Labels, k \in Labels :
        /\ IsPdf(i) /\ Populated(i, l) /\ Populated(i, k)
        /\ Len(TaggedNumbers(i, l)) = 9 /\ Len(TaggedNumbers(i, k)) = 3
        /\ tmc_data[i][VolKey(l, "south", "bikes")] = Num(8)
        /\ tmc_data[i][VolKey(k, "west", "bikes")] = Num(3)
        /\ tmc_data[i][VolKey(k, "west", "peds")] = None


\* Label l was requested by the filter handed to the constructor.
Requested(l) == ~period_filters.given \/ l \in period_filters.keys

\* C14 as claimed: the scraped flag of a record is the intersection of the
\* label's availability with the caller's filter, so it is false whenever the
\* label is not available.
C14_ScrapedIsIntersection ==
    \A i \in Done : tmc_data[i] # None =>
        \A l \in Labels :
            tmc_data[i][l \o "_scraped"]
                <=> (tmc_data[i][l \o "_available"] /\ Requested(l))

\* C14 amended: the scraped flag of a record is the collect flag of the label,
\* whether or not the label is available; the intersection of the collect
\* flag with the availability is the label's check, which is not emitted.
C14_ScrapedIsCollectFlag ==
    \A i \in Done : tmc_data[i] # None =>
        \A l \in Labels :
            /\ tmc_data[i][l \o "_scraped"] = Collect(l)
            /\ tmc_data[i][l \o "_available"] = available[i][l]
            /\ control_dict[i][l].check = (Collect(l) /\ available[i][l])

\* A record whose MD label is not available and is flagged scraped.
C14_Witness ==
    \E i \in Done :
        /\ tmc_data[i] # None
        /\ ~tmc_data[i]["MD_available"] /\ tmc_data[i]["MD_scraped"]
        /\ control_dict[i]["MD"].check = FALSE

Scan1 == veh_text.segs[veh_key + 1].scan[1]
Scan3 == veh_text.segs[veh_key + 1].scan[3]

\* C15: north is the first number of the run of scan 1 and south the maximum
\* of the run of scan 3, each absent when its run is empty, whatever the run
\* of scan 2 is.
C15_NorthSouth ==
    Called /\ InSegment =>
        /\ veh_vol # Raise
        /\ Get(veh_vol, "north") = IF Scan1 # <<>> THEN Num(Scan1[1]) ELSE None
        /\ Get(veh_vol, "south") = IF Scan3 # <<>> THEN Num(MaxOf(Scan3)) ELSE None
        /\ "north" \in DOMAIN veh_vol /\ "south" \in DOMAIN veh_vol

\* North 11 and south 33 from the runs [11, 12] and [31, 33, 32] with an
\* empty run of scan 2 (east and west absent).
C15_Witness ==
    /\ Called /\ InSegment
    /\ Run2 = <<>> /\ Scan1 = <<11, 12>> /\ Scan3 = <<31, 33, 32>>
    /\ East = None /\ West = None
    /\ Get(veh_vol, "north") = Num(11) /\ Get(veh_vol, "south") = Num(33)

\* C17: in every PDF record the position of a populated label is inside the
\* list of segments, and the segment at that position begins with the peak
\* window of the label.
C17_SegmentAligned ==
    \A i \in Done : IsPdf(i) =>
        \A l \in Labels : Populated(i, l) =>
            LET k == control_dict[i][l].table_key[2] IN
            /\ k < Len(rows[i].content.segs)
            /\ rows[i].content.segs[k + 1].win = tmc_data[i][PeakKey(l)]


\* Row i has the value a worker's call returned for it.
Settled(i) == par_data[i] # Pending /\ par_data[i] # Taken

C16_State ==
    /\ \A i \in DOMAIN par_data : Settled(i) => par_data[i] = Alone(rows[i])
    /\ \A w \in Workers : work[w].phase = "returned" =>
            /\ work[w].out.ret = Alone(rows[work[w].row])
            /\ ~work[w].out.esc
    /\ pc = "ready" =>
            /\ filter_options = WebScraper_init(period_filters)
            /\ \A l \in Labels : Collect(l) = filter_options[l]

\* C16: no call of _scrape_tmc (or of the readers it dispatches to) changes
\* filter_options or collect_am / collect_md / collect_pm, and for every
\* order in which the rows are taken and every interleaving of the calls of
\* one or several workers each row's outcome is the one it has when
\* processed alone.
C16_NoSharedState ==
    /\ []C16_State
    /\ [][pc = "ready" =>
            UNCHANGED <<filter_options, collect_am, collect_md, collect_pm>>]_vars

\* Two workers were in their calls at once and the second row's record was
\* delivered while the call on the first row had not returned its value.
C16_Witness ==
    /\ Len(rows) = 2
    /\ par_data[1] = Taken /\ Settled(2) /\ par_data[2] # None
    /\ \E w \in Workers : work[w].phase = "returned" /\ work[w].row = 1

====
